---------------------------- MODULE Spec2Model ----------------------------
(***************************************************************************)
(* Model of scc::KosarajuSCC (src/scc_formal_verify/kosaraju.cpp).         *)
(*                                                                         *)
(* findSCCs is modelled twice from the same source lines:                  *)
(*   - as a state machine (Spec) that executes the function statement by   *)
(*     statement, the recursion of dfsFirstPass / dfsSecondPass being an   *)
(*     explicit stack of frames <<node, position in its adjacency list>>;  *)
(*   - as the pure function FindSCCs(g) (RECURSIVE operators), used where  *)
(*     the results of two different calls are compared.                    *)
(*                                                                         *)
(* A Graph (std::vector<std::vector<int>>) is a function from 0..n-1 to    *)
(* sequences of integers; std::vector<int> is a sequence (positions        *)
(* 1..Len, so C++ index i is position i+1).                                *)
(***************************************************************************)
EXTENDS Integers, Sequences, FiniteSets, TLC

\* Bounds of the explored inputs: graphs of at most MaxN nodes holding at
\* most MaxEdges adjacency entries in total, each entry drawn from -1..n
\* (so -1 and n are the out-of-range targets).
MaxN == 3
MaxEdges == 3

VARIABLES
    graph,       \* the argument of findSCCs (const Graph&)
    pc,          \* position in findSCCs
    n,           \* const int n                        (line 26)
    visited,     \* std::vector<bool> visited          (line 31)
    order,       \* std::vector<int> order             (line 30)
    transpose,   \* Graph transpose                    (line 40)
    components,  \* Components components              (line 51)
    component,   \* std::vector<int> component         (line 56)
    v,           \* loop variable v of lines 33 and 41
    k,           \* position of the range-for of line 42 in graph[v]
    i,           \* loop variable i of line 53
    stack,       \* call stack of dfsFirstPass / dfsSecondPass
    oob,         \* TRUE once a vector was indexed outside its size
    calls,       \* history: calls[p][x] = entries of pass p's DFS with v = x
    desc,        \* history: desc[x] = nodes first visited while x's
                 \*          dfsFirstPass call was active
    roots        \* history: the v of every dfsSecondPass call of line 57

vars == <<graph, pc, n, visited, order, transpose, components, component,
          v, k, i, stack, oob, calls, desc, roots>>

---------------------------------------------------------------------------
\* Generic helpers.

Size(g) == Cardinality(DOMAIN g)                       \* vector::size()

Nodes(g) == 0 .. Size(g) - 1

Range(s) == {s[x] : x \in DOMAIN s}

RECURSIVE SumTo(_, _)
SumTo(f, m) == IF m < 0 THEN 0 ELSE f[m] + SumTo(f, m - 1)

\* A braced initialiser list {{..}, {..}} as a Graph.
GraphOf(lit) == [x \in 0 .. Len(lit) - 1 |-> lit[x + 1]]

\* The graph of m nodes whose node x has deg[x] entries, taken in order
\* from the flat sequence t.
MkGraph(m, deg, t) ==
    [x \in 0 .. m - 1 |->
        [p \in 1 .. deg[x] |-> t[SumTo(deg, x - 1) + p]]]

\* graph is one of the bounded inputs: m nodes, deg[x] entries at node x,
\* at most MaxEdges entries in all, each entry in -1 .. m.
IsBoundedInput(g) ==
    \E m \in 0 .. MaxN :
      \E deg \in [0 .. m - 1 -> 0 .. MaxEdges] :
        /\ SumTo(deg, m - 1) <= MaxEdges
        /\ \E t \in [1 .. SumTo(deg, m - 1) -> -1 .. m] :
              g = MkGraph(m, deg, t)

\* The graphs of testKosaraju.
Triangle == GraphOf(<< <<1>>, <<2>>, <<0>> >>)
TwoCycles == GraphOf(<< <<1>>, <<0>>, <<3>>, <<2>> >>)
EmptyGraph == GraphOf(<< >>)
SingleNode == GraphOf(<< <<>> >>)
ComplexGraph == GraphOf(<< <<1, 2>>, <<0, 3>>, <<0>>, <<1, 4>>, <<3>> >>)

TestGraphs == {Triangle, TwoCycles, EmptyGraph, SingleNode, ComplexGraph}

---------------------------------------------------------------------------
\* The pieces of the code shared by the state machine and the function.

\* Variant of TransposeInRange: the lower test written w > 0.
TransposeInRangePositive(w, size) == w > 0 /\ w < size

\* line 43: if (w >= 0 && w < n)
TransposeInRange(w, size) == w >= 0 /\ w < size

\* Variant of FirstInRange: the upper test left out.
FirstInRangeNoUpper(w, size) == w >= 0

\* line 79: w >= 0 && w < static_cast<int>(graph.size())
FirstInRange(w, size) == w >= 0 /\ w < size

\* line 94: w >= 0 && w < static_cast<int>(transpose.size())
SecondInRange(w, size) == w >= 0 /\ w < size

\* Variant of FirstRootUnvisited: the test left out.
FirstRootAlways(vis, x) == TRUE

\* line 34: if (!visited[v])
FirstRootUnvisited(vis, x) == ~vis[x]

\* Variant of SecondRootUnvisited: the test left out.
SecondRootAlways(vis, x) == TRUE

\* line 55: if (!visited[v])
SecondRootUnvisited(vis, x) == ~vis[x]

\* Variants of AddReverseEdge: the edge is copied, not reversed; an edge
\* already present is not added again.
AddForwardEdge(t, x, w) == [t EXCEPT ![x] = Append(@, w)]
AddReverseEdgeOnce(t, x, w) ==
    IF \E p \in DOMAIN t[w] : t[w][p] = x THEN t
                                          ELSE [t EXCEPT ![w] = Append(@, x)]

\* line 44: transpose[w].push_back(v)
AddReverseEdge(t, x, w) == [t EXCEPT ![w] = Append(@, x)]

\* Variant of PushOrder: the node is put in front.
PushOrderFront(ord, x) == << x >> \o ord

\* line 84: order.push_back(v)
PushOrder(ord, x) == Append(ord, x)

\* Variant of PushNode: the node is put in front.
PushNodeFront(comp, x) == << x >> \o comp

\* line 91: component.push_back(v)
PushNode(comp, x) == Append(comp, x)

\* line 58: components.push_back(std::move(component))
PushComponent(comps, comp) == Append(comps, comp)

\* line 54: int v = order[i]
OrderAt(ord, idx) == ord[idx + 1]

\* line 53: the first value of i
SecondLoopStart(size) == size - 1

\* line 53: --i
SecondLoopNext(idx) == idx - 1

\* line 31 / line 50: all markers false
AllUnvisited(size) == [x \in 0 .. size - 1 |-> FALSE]

\* line 40: Graph transpose(n)
EmptyAdjacency(size) == [x \in 0 .. size - 1 |-> << >>]

---------------------------------------------------------------------------
\* findSCCs as a state machine.

Frame(x) == [node |-> x, pos |-> 1]

Top == stack[Len(stack)]

\* The caller's frame moves on to its next neighbour; the callee's is pushed.
Call(x) == [stack EXCEPT ![Len(stack)].pos = @ + 1] \o << Frame(x) >>

Advance == [stack EXCEPT ![Len(stack)].pos = @ + 1]

Pop == SubSeq(stack, 1, Len(stack) - 1)

Active == {stack[d].node : d \in DOMAIN stack}

Init ==
    /\ \/ graph \in TestGraphs
       \/ IsBoundedInput(graph)
    /\ pc = "start"
    /\ n = 0
    /\ visited = << >>
    /\ order = << >>
    /\ transpose = << >>
    /\ components = << >>
    /\ component = << >>
    /\ v = 0
    /\ k = 1
    /\ i = 0
    /\ stack = << >>
    /\ oob = FALSE
    /\ calls = [p \in {1, 2} |-> [x \in Nodes(graph) |-> 0]]
    /\ desc = [x \in Nodes(graph) |-> {}]
    /\ roots = << >>

\* Indexing a vector outside its size is undefined behaviour: the run leaves
\* the defined behaviours of the program and anything may follow; "ub"
\* stands for all of it.
OutOfBounds ==
    /\ oob' = TRUE
    /\ pc' = "ub"
    /\ UNCHANGED <<graph, n, visited, order, transpose, components, component,
                   v, k, i, stack, calls, desc, roots>>

\* lines 26-27: n == 0, return {}
EnterEmpty ==
    /\ pc = "start"
    /\ Size(graph) = 0
    /\ n' = Size(graph)
    /\ components' = << >>
    /\ pc' = "done"
    /\ UNCHANGED <<graph, visited, order, transpose, component, v, k, i,
                   stack, oob, calls, desc, roots>>

\* lines 26-33: n > 0, order and visited are created, v = 0
Enter ==
    /\ pc = "start"
    /\ Size(graph) # 0
    /\ n' = Size(graph)
    /\ order' = << >>
    /\ visited' = AllUnvisited(n')
    /\ v' = 0
    /\ pc' = "first"
    /\ UNCHANGED <<graph, transpose, components, component, k, i, stack, oob,
                   calls, desc, roots>>

\* lines 33-35 and 76: v is unvisited, dfsFirstPass(graph, v, ...) is entered
FirstPassCall ==
    /\ pc = "first"
    /\ v < n
    /\ FirstRootUnvisited(visited, v)
    /\ visited' = [visited EXCEPT ![v] = TRUE]
    /\ stack' = << Frame(v) >>
    /\ calls' = [calls EXCEPT ![1][v] = @ + 1]
    /\ pc' = "dfs1"
    /\ UNCHANGED <<graph, n, order, transpose, components, component, v, k, i,
                   oob, desc, roots>>

\* lines 33-34: v was visited by an earlier traversal, ++v
FirstPassSkip ==
    /\ pc = "first"
    /\ v < n
    /\ ~FirstRootUnvisited(visited, v)
    /\ v' = v + 1
    /\ UNCHANGED <<graph, pc, n, visited, order, transpose, components,
                   component, k, i, stack, oob, calls, desc, roots>>

\* lines 33, 40-41: the first loop ends, transpose(n) is created
FirstPassEnd ==
    /\ pc = "first"
    /\ v >= n
    /\ transpose' = EmptyAdjacency(n)
    /\ v' = 0
    /\ k' = 1
    /\ pc' = "transpose"
    /\ UNCHANGED <<graph, n, visited, order, components, component, i, stack,
                   oob, calls, desc, roots>>

\* lines 78-80 and 76: the next neighbour w passes the test, the recursive
\* call is entered and marks w
Dfs1Recurse ==
    /\ pc = "dfs1"
    /\ Top.pos <= Len(graph[Top.node])
    /\ LET w == graph[Top.node][Top.pos] IN
        /\ FirstInRange(w, Size(graph))
        /\ IF w \notin DOMAIN visited
             THEN OutOfBounds
             ELSE /\ ~visited[w]
                  /\ visited' = [visited EXCEPT ![w] = TRUE]
                  /\ stack' = Call(w)
                  /\ calls' = [calls EXCEPT ![1][w] = @ + 1]
                  /\ desc' = [x \in DOMAIN desc |->
                                IF x \in Active THEN desc[x] \cup {w}
                                                ELSE desc[x]]
                  /\ UNCHANGED <<graph, pc, n, order, transpose, components,
                                 component, v, k, i, oob, roots>>

\* lines 78-79: the next neighbour w is out of range or visited
Dfs1Skip ==
    /\ pc = "dfs1"
    /\ Top.pos <= Len(graph[Top.node])
    /\ LET w == graph[Top.node][Top.pos] IN
        \/ ~FirstInRange(w, Size(graph))
        \/ (w \in DOMAIN visited /\ visited[w])
    /\ stack' = Advance
    /\ UNCHANGED <<graph, pc, n, visited, order, transpose, components,
                   component, v, k, i, oob, calls, desc, roots>>

\* lines 84-85: the neighbours are done, order.push_back(v) and return; the
\* return of the outermost call continues the loop of line 33
Dfs1Return ==
    /\ pc = "dfs1"
    /\ Top.pos > Len(graph[Top.node])
    /\ order' = PushOrder(order, Top.node)
    /\ stack' = Pop
    /\ IF Len(stack) = 1
         THEN pc' = "first" /\ v' = v + 1
         ELSE UNCHANGED <<pc, v>>
    /\ UNCHANGED <<graph, n, visited, transpose, components, component, k, i,
                   oob, calls, desc, roots>>

\* lines 42-44: w is in range, transpose[w].push_back(v)
TransposeAdd ==
    /\ pc = "transpose"
    /\ v < n
    /\ k <= Len(graph[v])
    /\ LET w == graph[v][k] IN
        /\ TransposeInRange(w, n)
        /\ IF w \notin DOMAIN transpose
             THEN OutOfBounds
             ELSE /\ transpose' = AddReverseEdge(transpose, v, w)
                  /\ k' = k + 1
                  /\ UNCHANGED <<graph, pc, n, visited, order, components,
                                 component, v, i, stack, oob, calls, desc,
                                 roots>>

\* lines 42-43: w is out of range, nothing is mirrored
TransposeDrop ==
    /\ pc = "transpose"
    /\ v < n
    /\ k <= Len(graph[v])
    /\ ~TransposeInRange(graph[v][k], n)
    /\ k' = k + 1
    /\ UNCHANGED <<graph, pc, n, visited, order, transpose, components,
                   component, v, i, stack, oob, calls, desc, roots>>

\* lines 41-42: graph[v] is exhausted, ++v
TransposeNextNode ==
    /\ pc = "transpose"
    /\ v < n
    /\ k > Len(graph[v])
    /\ v' = v + 1
    /\ k' = 1
    /\ UNCHANGED <<graph, pc, n, visited, order, transpose, components,
                   component, i, stack, oob, calls, desc, roots>>

\* lines 41, 50-53: the transpose is built; visited is reset, components is
\* created, i = n - 1
TransposeEnd ==
    /\ pc = "transpose"
    /\ v >= n
    /\ visited' = AllUnvisited(Size(visited))
    /\ components' = << >>
    /\ i' = SecondLoopStart(n)
    /\ pc' = "second"
    /\ UNCHANGED <<graph, n, order, transpose, component, v, k, stack, oob,
                   calls, desc, roots>>

\* lines 53-57 and 90-91: order[i] is unvisited, a new component is started
\* and dfsSecondPass(transpose, v, ...) is entered
SecondPassCall ==
    /\ pc = "second"
    /\ i >= 0
    /\ LET x == OrderAt(order, i) IN
        /\ SecondRootUnvisited(visited, x)
        /\ visited' = [visited EXCEPT ![x] = TRUE]
        /\ component' = PushNode(<< >>, x)
        /\ stack' = << Frame(x) >>
        /\ calls' = [calls EXCEPT ![2][x] = @ + 1]
        /\ roots' = Append(roots, x)
    /\ pc' = "dfs2"
    /\ UNCHANGED <<graph, n, order, transpose, components, v, k, i, oob, desc>>

\* lines 53-55: order[i] already belongs to a component, --i
SecondPassSkip ==
    /\ pc = "second"
    /\ i >= 0
    /\ ~SecondRootUnvisited(visited, OrderAt(order, i))
    /\ i' = SecondLoopNext(i)
    /\ UNCHANGED <<graph, pc, n, visited, order, transpose, components,
                   component, v, k, stack, oob, calls, desc, roots>>

\* lines 53, 62: the second loop ends, return components
SecondPassEnd ==
    /\ pc = "second"
    /\ i < 0
    /\ pc' = "done"
    /\ UNCHANGED <<graph, n, visited, order, transpose, components, component,
                   v, k, i, stack, oob, calls, desc, roots>>

\* lines 93-95 and 90-91: the next neighbour w passes the test, the
\* recursive call is entered, marks w and appends it to the component
Dfs2Recurse ==
    /\ pc = "dfs2"
    /\ Top.pos <= Len(transpose[Top.node])
    /\ LET w == transpose[Top.node][Top.pos] IN
        /\ SecondInRange(w, Size(transpose))
        /\ IF w \notin DOMAIN visited
             THEN OutOfBounds
             ELSE /\ ~visited[w]
                  /\ visited' = [visited EXCEPT ![w] = TRUE]
                  /\ component' = PushNode(component, w)
                  /\ stack' = Call(w)
                  /\ calls' = [calls EXCEPT ![2][w] = @ + 1]
                  /\ UNCHANGED <<graph, pc, n, order, transpose, components,
                                 v, k, i, oob, desc, roots>>

\* lines 93-94: the next neighbour w is out of range or visited
Dfs2Skip ==
    /\ pc = "dfs2"
    /\ Top.pos <= Len(transpose[Top.node])
    /\ LET w == transpose[Top.node][Top.pos] IN
        \/ ~SecondInRange(w, Size(transpose))
        \/ (w \in DOMAIN visited /\ visited[w])
    /\ stack' = Advance
    /\ UNCHANGED <<graph, pc, n, visited, order, transpose, components,
                   component, v, k, i, oob, calls, desc, roots>>

\* line 98: return; the return of the outermost call is followed by
\* components.push_back(std::move(component)) and --i (lines 58, 53)
Dfs2Return ==
    /\ pc = "dfs2"
    /\ Top.pos > Len(transpose[Top.node])
    /\ stack' = Pop
    /\ IF Len(stack) = 1
         THEN /\ components' = PushComponent(components, component)
              /\ i' = SecondLoopNext(i)
              /\ pc' = "second"
         ELSE UNCHANGED <<components, i, pc>>
    /\ UNCHANGED <<graph, n, visited, order, transpose, component, v, k, oob,
                   calls, desc, roots>>

Next ==
    \/ EnterEmpty
    \/ Enter
    \/ FirstPassCall
    \/ FirstPassSkip
    \/ FirstPassEnd
    \/ Dfs1Recurse
    \/ Dfs1Skip
    \/ Dfs1Return
    \/ TransposeAdd
    \/ TransposeDrop
    \/ TransposeNextNode
    \/ TransposeEnd
    \/ SecondPassCall
    \/ SecondPassSkip
    \/ SecondPassEnd
    \/ Dfs2Recurse
    \/ Dfs2Skip
    \/ Dfs2Return

Spec == Init /\ [][Next]_vars

\* findSCCs is one synchronous call: once entered, it keeps executing.
FairSpec == Spec /\ WF_vars(Next)

---------------------------------------------------------------------------
\* findSCCs as a pure function.

RECURSIVE dfsFirstPass(_, _, _), dfsFirstPassLoop(_, _, _, _)

\* lines 78-84, from position p of graph[x] on; st = [visited, order]
dfsFirstPassLoop(g, x, p, st) ==
    IF p > Len(g[x])
      THEN [st EXCEPT !.order = PushOrder(@, x)]
      ELSE LET w == g[x][p] IN
           IF FirstInRange(w, Size(g)) /\ ~st.visited[w]
             THEN dfsFirstPassLoop(g, x, p + 1, dfsFirstPass(g, w, st))
             ELSE dfsFirstPassLoop(g, x, p + 1, st)

\* lines 73-85
dfsFirstPass(g, x, st) ==
    dfsFirstPassLoop(g, x, 1, [st EXCEPT !.visited[x] = TRUE])

RECURSIVE FirstPass(_, _, _)
\* lines 33-37, from v = x on
FirstPass(g, x, st) ==
    IF x >= Size(g) THEN st
    ELSE IF FirstRootUnvisited(st.visited, x)
           THEN FirstPass(g, x + 1, dfsFirstPass(g, x, st))
           ELSE FirstPass(g, x + 1, st)

RECURSIVE TransposeLoop(_, _, _, _)
\* lines 41-47, from position p of graph[x] on
TransposeLoop(g, x, p, t) ==
    IF x >= Size(g) THEN t
    ELSE IF p > Len(g[x]) THEN TransposeLoop(g, x + 1, 1, t)
    ELSE IF TransposeInRange(g[x][p], Size(g))
           THEN TransposeLoop(g, x, p + 1, AddReverseEdge(t, x, g[x][p]))
           ELSE TransposeLoop(g, x, p + 1, t)

\* lines 40-47
Transpose(g) == TransposeLoop(g, 0, 1, EmptyAdjacency(Size(g)))

RECURSIVE dfsSecondPass(_, _, _), dfsSecondPassLoop(_, _, _, _)

\* lines 93-97, from position p of transpose[x] on; st = [visited, component]
dfsSecondPassLoop(t, x, p, st) ==
    IF p > Len(t[x])
      THEN st
      ELSE LET w == t[x][p] IN
           IF SecondInRange(w, Size(t)) /\ ~st.visited[w]
             THEN dfsSecondPassLoop(t, x, p + 1, dfsSecondPass(t, w, st))
             ELSE dfsSecondPassLoop(t, x, p + 1, st)

\* lines 87-98
dfsSecondPass(t, x, st) ==
    dfsSecondPassLoop(t, x, 1, [st EXCEPT !.visited[x] = TRUE,
                                          !.component = PushNode(@, x)])

RECURSIVE SecondPass(_, _, _, _)
\* lines 53-60, from i = idx on; st = [visited, components]
SecondPass(t, ord, idx, st) ==
    IF idx < 0 THEN st
    ELSE LET x == OrderAt(ord, idx) IN
         IF SecondRootUnvisited(st.visited, x)
           THEN LET r == dfsSecondPass(t, x, [visited |-> st.visited,
                                               component |-> << >>])
                IN SecondPass(t, ord, SecondLoopNext(idx),
                              [visited |-> r.visited,
                               components |->
                                   PushComponent(st.components, r.component)])
           ELSE SecondPass(t, ord, SecondLoopNext(idx), st)

\* lines 25-63
FindSCCs(g) ==
    IF Size(g) = 0 THEN << >>
    ELSE LET first == FirstPass(g, 0, [visited |-> AllUnvisited(Size(g)),
                                       order |-> << >>])
         IN SecondPass(Transpose(g), first.order, SecondLoopStart(Size(g)),
                       [visited |-> AllUnvisited(Size(g)),
                        components |-> << >>]).components

\* lines 68-70
CountSCCs(g) == Len(FindSCCs(g))

\* The state machine and the function are two readings of the same code.
MachineIsFunction == pc = "done" => components = FindSCCs(graph)

---------------------------------------------------------------------------
\* Vocabulary of the properties.

Done == pc = "done"

FirstPassOver == pc \in {"transpose", "second", "dfs2", "done"} /\ n > 0

TransposeBuilt == pc \in {"second", "dfs2", "done"} /\ n > 0

Count(s, x) == Cardinality({p \in DOMAIN s : s[p] = x})

\* Position of x in the sequence s.
Pos(s, x) == CHOOSE p \in DOMAIN s : s[p] = x

\* The in-range edges of g.
Edge(g, u, w) == w \in Nodes(g) /\ w \in Range(g[u])

RECURSIVE Closure(_, _)
Closure(g, S) ==
    LET T == S \cup {w \in Nodes(g) : \E u \in S : Edge(g, u, w)}
    IN IF T = S THEN S ELSE Closure(g, T)

Reaches(g, u, w) == w \in Closure(g, {u})

MutuallyReachable(g, u, w) == Reaches(g, u, w) /\ Reaches(g, w, u)

\* How often x occurs in the result.
Occurrences(x) ==
    Cardinality(UNION { { <<c, p>> : p \in {q \in DOMAIN components[c] :
                                              components[c][q] = x} } :
                        c \in DOMAIN components })

\* Index in the result of the component that holds x.
CompOf(x) == CHOOSE c \in DOMAIN components : x \in Range(components[c])

HasOutOfRange(g) == \E u \in Nodes(g) : \E w \in Range(g[u]) : w \notin Nodes(g)

\* g without its out-of-range entries.
RemoveOutOfRange(g) ==
    [x \in DOMAIN g |-> SelectSeq(g[x], LAMBDA w : w \in Nodes(g))]

---------------------------------------------------------------------------
\* Every vector index the code evaluates at the current position lies within
\* the vector's size.
IndicesInBounds ==
    /\ ~oob
    /\ pc # "ub"
    /\ (pc = "first" /\ v < n) => v \in DOMAIN visited              \* line 34
    /\ (pc = "dfs1") => Top.node \in DOMAIN graph                   \* line 78
    /\ (pc = "transpose" /\ v < n) => v \in DOMAIN graph            \* line 42
    /\ (pc = "second" /\ i >= 0) =>
          /\ i + 1 \in DOMAIN order                                 \* line 54
          /\ OrderAt(order, i) \in DOMAIN visited                   \* line 55
    /\ (pc = "dfs2") => Top.node \in DOMAIN transpose               \* line 93

\* C1: the result of findSCCs(G) is a partition of [0, n): every component
\* is non-empty, every node of [0, n) occurs exactly once in the whole
\* result, nothing outside [0, n) occurs, and the result is empty for n = 0.
C1_Partition ==
    Done =>
      /\ \A c \in DOMAIN components : Len(components[c]) > 0
      /\ \A x \in Nodes(graph) : Occurrences(x) = 1
      /\ \A c \in DOMAIN components : Range(components[c]) \subseteq Nodes(graph)
      /\ (Size(graph) = 0 => components = << >>)
      /\ (Size(graph) > 0 => Len(components) \in 1 .. Size(graph))

C1_Witness ==
    /\ Done
    /\ Size(graph) = 3
    /\ Len(components) = 2

\* C2: two nodes of the same component reach each other along in-range
\* edges of G.
C2_SameComponentMutuallyReachable ==
    Done =>
      \A c \in DOMAIN components :
        \A u, w \in Range(components[c]) : MutuallyReachable(graph, u, w)

C2_Witness ==
    /\ Done
    /\ HasOutOfRange(graph)
    /\ \E c \in DOMAIN components : Len(components[c]) = 2

\* C3: the components are maximal: two mutually reachable nodes lie in the
\* same component; the triangle 0 -> 1 -> 2 -> 0 yields one component of
\* three nodes.
C3_Maximal ==
    Done =>
      /\ \A u, w \in Nodes(graph) :
           MutuallyReachable(graph, u, w) =>
             \E c \in DOMAIN components : {u, w} \subseteq Range(components[c])
      /\ (graph = Triangle =>
            Len(components) = 1 /\ Range(components[1]) = {0, 1, 2})

C3_Witness ==
    /\ Done
    /\ graph = Triangle
    /\ Len(components) = 1

\* C4: with edge targets that are negative or >= n in G, findSCCs indexes no
\* vector outside its size and returns exactly the result of findSCCs on G
\* without those entries.
C4_OutOfRangeIgnored ==
    /\ IndicesInBounds
    /\ (Done /\ HasOutOfRange(graph)) =>
          components = FindSCCs(RemoveOutOfRange(graph))

C4_Witness ==
    /\ Done
    /\ \E u, x \in Nodes(graph) : -1 \in Range(graph[u]) /\ n \in Range(graph[x])
    /\ Len(components) = 2

\* C5: findSCCs terminates on every graph, every node's DFS call is entered
\* at most once in each pass, and inside a pass a visited marker never goes
\* back from visited to unvisited.
SamePass ==
    \/ pc \in {"first", "dfs1"} /\ pc' \in {"first", "dfs1"}
    \/ pc \in {"second", "dfs2"} /\ pc' \in {"second", "dfs2"}

EnteredAtMostOnce ==
    \A p \in DOMAIN calls : \A x \in DOMAIN calls[p] : calls[p][x] <= 1

MarkersKept ==
    SamePass => \A x \in DOMAIN visited : visited[x] => visited'[x]

C5_TerminatesVisitingOnce ==
    /\ <>Done
    /\ []EnteredAtMostOnce
    /\ [][MarkersKept]_vars

C5_Witness ==
    /\ Done
    /\ \E x \in Nodes(graph) : Count(graph[x], x) = 1       \* a self-loop
    /\ \E x \in Nodes(graph) : \E w \in Nodes(graph) :
         w # x /\ Count(graph[x], w) = 2                    \* a duplicate edge
    /\ \A x \in Nodes(graph) : calls[1][x] = 1 /\ calls[2][x] = 1

\* C6: the first node of each component is the root its second-pass DFS was
\* started from, and the roots of earlier components finished later in the
\* first pass: for positions c < d, root c has the greater index in order.
C6_RootsInDecreasingFinishOrder ==
    Done =>
      /\ Len(roots) = Len(components)
      /\ \A c \in DOMAIN components : components[c][1] = roots[c]
      /\ \A c, d \in DOMAIN components :
           c < d => Pos(order, roots[c]) > Pos(order, roots[d])

C6_Witness ==
    /\ Done
    /\ Len(components) = 2
    /\ \E c \in DOMAIN components : Len(components[c]) = 2

\* C7: when the first pass ends, order is a permutation of [0, n) in DFS
\* post-order: every node comes after all nodes first visited during its own
\* traversal, and the roots of the traversals come in ascending index order.
IsFirstRoot(x) == \A y \in DOMAIN desc : x \notin desc[y]

C7_OrderIsPostOrder ==
    FirstPassOver =>
      /\ Len(order) = n
      /\ Range(order) = Nodes(graph)
      /\ \A x \in Nodes(graph) :
           \A d \in desc[x] : Pos(order, d) < Pos(order, x)
      /\ \A x, y \in Nodes(graph) :
           (IsFirstRoot(x) /\ IsFirstRoot(y) /\ x < y) =>
              Pos(order, x) < Pos(order, y)

C7_Witness ==
    /\ pc = "transpose"
    /\ Cardinality({x \in Nodes(graph) : IsFirstRoot(x)}) = 2
    /\ \E x \in Nodes(graph) : desc[x] # {}

\* C8: the transpose has n adjacency lists and is the exact reversal of the
\* in-range edges of the input: v occurs in transpose[w] as often as w occurs
\* in graph[v], nothing else is in it, and the input graph never changes.
TransposeIsReversal ==
    TransposeBuilt =>
      /\ DOMAIN transpose = Nodes(graph)
      /\ \A x, w \in Nodes(graph) :
           Count(transpose[w], x) = Count(graph[x], w)
      /\ \A w \in Nodes(graph) : Range(transpose[w]) \subseteq Nodes(graph)

C8_TransposeExact ==
    /\ []TransposeIsReversal
    /\ [][graph' = graph]_vars

C8_Witness ==
    /\ pc = "second"
    /\ HasOutOfRange(graph)
    /\ \E x, w \in Nodes(graph) : x # w /\ Count(transpose[w], x) = 2

C10_TopologicalOrder ==
    Done =>
      \A u, w \in Nodes(graph) :
        (Edge(graph, u, w) /\ CompOf(u) # CompOf(w)) => CompOf(u) < CompOf(w)

C10_Witness ==
    /\ Done
    /\ Len(components) = 3
    /\ \E u, w \in Nodes(graph) :
          Edge(graph, u, w) /\ u > w /\ CompOf(u) < CompOf(w)

=============================================================================
